---------------------------- MODULE Spec2Model ----------------------------
(***************************************************************************)
(* ask-ai (src/src/main.rs): a natural-language task is turned into a      *)
(* shell command by a completion backend, passed through a denylist gate,  *)
(* confirmed by the user, executed, and retried with the last outcome as   *)
(* history, at most max_attempts times.                                    *)
(*                                                                         *)
(* Texts are sequences of one-character strings, so that to_lowercase,     *)
(* contains, trim and the fence pattern are computed character by          *)
(* character.  Environment assumptions: a terminal is attached, so         *)
(* Term::write_line and Confirm::interact return Ok; the configuration     *)
(* file is not edited by anyone else while a run is in progress.           *)
(***************************************************************************)
EXTENDS Integers, Sequences, FiniteSets, TLC

VARIABLES
    pc,          \* position of main: start, synth, awaiting, confirm_exec,
                 \* executing, confirm_goal, done; gate_in / gate_out and
                 \* clean_in / clean_out in SpecGate and SpecClean
    cli,         \* parsed command line: [prompt, dry_run]
    configFile,  \* content of ~/.askai/config.toml
    config,      \* main's config (main.rs:503), an Option
    attempt,     \* main's attempt
    history,     \* main's history, an Option<ExecutionHistory>
    command,     \* main's command of the current iteration, an Option
    output,      \* main's (success, output_text) of the current iteration
    request,     \* the request last posted to the backend, an Option
    response,    \* the backend response last received, an Option
    result,      \* what main returned: running, or Ok / Err and why
    loads,       \* number of load_config calls
    synthCalls,  \* number of get_ai_response calls
    requests,    \* number of HTTP requests posted
    execLog,     \* what the subprocess executor was given and returned
    answer,      \* the user's last answer to a confirmation, an Option
    fnIn,        \* the text given to the function in SpecGate / SpecClean
    fnOut        \* its result, an Option

vars == <<pc, cli, configFile, config, attempt, history, command, output,
          request, response, result, loads, synthCalls, requests, execLog,
          answer, fnIn, fnOut>>

\* An Option<T> is a sequence of at most one T.
None == <<>>
Some(x) == <<x>>

-----------------------------------------------------------------------------
(* Characters and texts *)

UpperCase == <<"A","B","C","D","E","F","G","H","I","J","K","L","M",
               "N","O","P","Q","R","S","T","U","V","W","X","Y","Z">>
LowerCase == <<"a","b","c","d","e","f","g","h","i","j","k","l","m",
               "n","o","p","q","r","s","t","u","v","w","x","y","z">>

WhiteSpace == {" ", "\n", "\t"}

lower_char(c) ==
    IF \E i \in 1..Len(UpperCase) : UpperCase[i] = c
    THEN LowerCase[CHOOSE i \in 1..Len(UpperCase) : UpperCase[i] = c]
    ELSE c

upper_char(c) ==
    IF \E i \in 1..Len(LowerCase) : LowerCase[i] = c
    THEN UpperCase[CHOOSE i \in 1..Len(LowerCase) : LowerCase[i] = c]
    ELSE c

\* str::to_lowercase
to_lowercase(s) == [i \in 1..Len(s) |-> lower_char(s[i])]

\* does t occur in s at position i
starts_with_at(s, i, t) ==
    /\ i >= 1
    /\ i + Len(t) - 1 <= Len(s)
    /\ SubSeq(s, i, i + Len(t) - 1) = t

\* str::contains
contains(s, t) == \E i \in 1..(Len(s) + 1) : starts_with_at(s, i, t)

\* str::trim
trim(s) ==
    LET keep == {i \in 1..Len(s) : s[i] \notin WhiteSpace}
    IN  IF keep = {} THEN <<>>
        ELSE LET a == CHOOSE i \in keep : \A k \in keep : i <= k
                 b == CHOOSE i \in keep : \A k \in keep : i >= k
             IN  SubSeq(s, a, b)

-----------------------------------------------------------------------------
(* Safety Gate *)

DANGEROUS_COMMANDS == <<
    <<"r","m"," ","-","r","f">>,
    <<"m","k","f","s">>,
    <<"d","d">>,
    <<">"," ","/","d","e","v","/">>,
    <<"c","h","m","o","d"," ","-","R">>,
    <<":","(",")","{"," ",":","|",":","&"," ","}",";",":">> >>

\* the comparison with command and entry exchanged
is_dangerous_command_swapped(cmd) ==
    \E k \in 1..Len(DANGEROUS_COMMANDS) :
        contains(DANGEROUS_COMMANDS[k], to_lowercase(cmd))

is_dangerous_command(cmd) ==
    \E k \in 1..Len(DANGEROUS_COMMANDS) :
        contains(to_lowercase(cmd), DANGEROUS_COMMANDS[k])

-----------------------------------------------------------------------------
(* Sanitizer *)

\* the character U+0060, which a TLA+ string cannot hold
Tick == "U+0060"

Fence == <<Tick, Tick, Tick>>
TagShell == <<"s","h","e","l","l">>
TagBash == <<"b","a","s","h">>

MinOf(S) == CHOOSE x \in S : \A y \in S : x <= y

MaxOf(S) == CHOOSE x \in S : \A y \in S : x >= y

\* the optional tag with bash alone
after_tag_bash_only(s, p) ==
    IF starts_with_at(s, p, TagBash) THEN p + Len(TagBash) ELSE p

\* (?:shell|bash)? : position after the optional tag that starts at p
after_tag(s, p) ==
    IF starts_with_at(s, p, TagShell) THEN p + Len(TagShell)
    ELSE IF starts_with_at(s, p, TagBash) THEN p + Len(TagBash)
    ELSE p

\* \s*\n? : position after the longest run of white space that starts at p
after_space(s, p) ==
    MinOf({q \in p..(Len(s) + 1) : q = Len(s) + 1 \/ s[q] \notin WhiteSpace})

\* positions where the pattern of main.rs:247 matches: an opening fence with
\* a closing fence somewhere after it (the optional tag and white space
\* consume no fence character, so they never lose a closing fence)
fence_opens(s) ==
    {i \in 1..Len(s) :
        /\ starts_with_at(s, i, Fence)
        /\ \E j \in (i + 3)..Len(s) : starts_with_at(s, j, Fence)}

\* the capture group greedy: up to the last closing fence
clean_command_output_greedy(s) ==
    IF fence_opens(s) = {} THEN trim(s)
    ELSE LET i == MinOf(fence_opens(s))
             p == after_space(s, after_tag(s, i + 3))
             j == MaxOf({q \in p..Len(s) : starts_with_at(s, q, Fence)})
         IN  trim(SubSeq(s, p, j - 1))

clean_command_output(s) ==
    IF fence_opens(s) = {} THEN trim(s)
    ELSE LET i == MinOf(fence_opens(s))
             p == after_space(s, after_tag(s, i + 3))
             j == MinOf({q \in p..Len(s) : starts_with_at(s, q, Fence)})
         IN  trim(SubSeq(s, p, j - 1))

-----------------------------------------------------------------------------
(* Configuration store *)

ApiKeys == {"", "sk-test"}
Languages == {"en", "zh"}

\* what ~/.askai/config.toml can hold when the program starts: nothing, text
\* that is no configuration, a configuration without the language field, or
\* a full configuration
ConfigFiles ==
    {[state |-> "absent", api_key |-> "", language |-> ""],
     [state |-> "unparseable", api_key |-> "", language |-> ""]}
    \cup [state : {"old"}, api_key : {"sk-test"}, language : {""}]
    \cup [state : {"ok"}, api_key : ApiKeys, language : {"en"}]

\* load_config: the result, the Config, and the file it leaves behind.
\* typedKey and typedLang are what the user types when asked.
load_config(file, typedKey, typedLang) ==
    CASE file.state = "absent" ->
            LET c == [api_key |-> typedKey, language |-> typedLang]
            IN  [ok |-> TRUE, config |-> c,
                 file |-> [state |-> "ok", api_key |-> typedKey,
                           language |-> typedLang]]
      [] file.state = "ok" ->
            [ok |-> TRUE,
             config |-> [api_key |-> file.api_key, language |-> file.language],
             file |-> file]
      [] file.state = "old" ->
            [ok |-> TRUE,
             config |-> [api_key |-> file.api_key, language |-> typedLang],
             file |-> [state |-> "ok", api_key |-> file.api_key,
                       language |-> typedLang]]
      [] OTHER ->
            [ok |-> FALSE, config |-> [api_key |-> "", language |-> ""],
             file |-> file]

-----------------------------------------------------------------------------
(* Backend, executor and user: what they can answer *)

Task == "list files"

\* raw texts the backend returns as choices[0].message.content
RawFencedLs == <<Tick,Tick,Tick,"b","a","s","h","\n",
                 "l","s"," ","-","l","a","\n",Tick,Tick,Tick>>
RawRmRf == <<"r","m"," ","-","r","f"," ","/","t","m","p","/","x">>
RawChmod == <<"c","h","m","o","d"," ","-","R"," ","7"," ","/">>
RawFalse == <<"f","a","l","s","e">>
RawUpperDd == <<" ","D","D"," ","i","f","=","x","\n">>

Contents == {RawFencedLs, RawRmRf, RawChmod, RawFalse, RawUpperDd}

Statuses == {200, 500}

\* a response: none (the request could not be sent), or a status and a body
\* that is no JSON, JSON without choices[0].message.content, or JSON with it
Responses ==
    {[sent |-> FALSE, status |-> 0, json |-> FALSE, has_content |-> FALSE,
      content |-> <<>>]}
    \cup [sent : {TRUE}, status : Statuses, json : {FALSE},
          has_content : {FALSE}, content : {<<>>}]
    \cup [sent : {TRUE}, status : Statuses, json : {TRUE},
          has_content : {FALSE}, content : {<<>>}]
    \cup [sent : {TRUE}, status : Statuses, json : {TRUE},
          has_content : {TRUE}, content : Contents]

\* what Command::output returns: no process, or an exit status and the
\* captured streams
ExecResults ==
    {[spawned |-> FALSE, success |-> FALSE, stdout |-> "", stderr |-> ""]}
    \cup [spawned : {TRUE}, success : {TRUE}, stdout : {"", "a.txt"},
          stderr : {""}]
    \cup [spawned : {TRUE}, success : {FALSE}, stdout : {""},
          stderr : {"", "not found"}]

-----------------------------------------------------------------------------
(* Loop Controller *)

max_attempts == 3

Running == [kind |-> "running", why |-> ""]
Ok(why) == [kind |-> "Ok", why |-> why]
\* an error reported as a success
Err_as_ok(why) == [kind |-> "Ok", why |-> why]

Err(why) == [kind |-> "Err", why |-> why]

\* the user message with the number of the coming attempt
user_prompt_next_number(prompt, h) ==
    IF h = None
    THEN [template |-> "first", prompt |-> prompt, command |-> <<>>,
          output |-> "", success |-> FALSE, attempt |-> 0]
    ELSE [template |-> "history", prompt |-> prompt,
          command |-> h[1].command, output |-> h[1].output,
          success |-> h[1].success, attempt |-> h[1].attempt + 1]

\* the user message of get_ai_response: the fields the template embeds
user_prompt(prompt, h) ==
    IF h = None
    THEN [template |-> "first", prompt |-> prompt, command |-> <<>>,
          output |-> "", success |-> FALSE, attempt |-> 0]
    ELSE [template |-> "history", prompt |-> prompt,
          command |-> h[1].command, output |-> h[1].output,
          success |-> h[1].success, attempt |-> h[1].attempt]

\* the condition of the while loop, with one more turn
loop_continues_one_more(a) == a <= max_attempts + 1

\* the condition of the while loop
loop_continues(a) == a <= max_attempts

\* the dry-run flag not looked at
dry_run_ignored == FALSE

\* main.rs:526: with --dry-run nothing is asked and nothing is executed
dry_run_skips == cli.dry_run

\* the executor given the lowercased text the gate compared
executor_argument_lowercased(cmd) == to_lowercase(cmd)

\* main.rs:542-545: the text handed to sh -c
executor_argument(cmd) == cmd

\* the gate applied to the first command only
gate_blocks_first_only(cmd) == attempt = 1 /\ is_dangerous_command(cmd)

\* the gate as main applies it to the command of the iteration
gate_blocks(cmd) == is_dangerous_command(cmd)

Init ==
    /\ pc = "start"
    /\ cli \in [prompt : {None, Some(Task)}, dry_run : BOOLEAN]
    /\ configFile \in ConfigFiles
    /\ config = None
    /\ attempt = 1
    /\ history = None
    /\ command = None
    /\ output = None
    /\ request = None
    /\ response = None
    /\ result = Running
    /\ loads = 0
    /\ synthCalls = 0
    /\ requests = 0
    /\ execLog = <<>>
    /\ answer = None
    /\ fnIn = <<>>
    /\ fnOut = None

\* main returns
Return(r) ==
    /\ pc' = "done"
    /\ result' = r

\* an error of get_ai_response answered by another call
invoker_error_retried(why) ==
    /\ pc' = "synth"
    /\ UNCHANGED result

\* main.rs:509: an error of get_ai_response is returned by main
invoker_error(why) == Return(Err(why))

\* the goal question asked whatever the exit status
asks_goal_always(out) == TRUE

\* main.rs:566: the goal question is asked after a successful command
asks_goal(out) == out.success

\* main.rs:493-507: the prompt, the configuration, the first loop test
Start ==
    /\ pc = "start"
    /\ IF cli.prompt = None
       THEN /\ Return(Err("no prompt"))
            /\ UNCHANGED <<configFile, config, loads>>
       ELSE \E typedKey \in ApiKeys, typedLang \in Languages :
              LET r == load_config(configFile, typedKey, typedLang)
              IN  /\ loads' = loads + 1
                  /\ configFile' = r.file
                  /\ IF r.ok
                     THEN /\ config' = Some(r.config)
                          /\ pc' = "synth"
                          /\ UNCHANGED result
                     ELSE /\ Return(Err("config"))
                          /\ UNCHANGED config
    /\ UNCHANGED <<cli, attempt, history, command, output, request, response,
                   synthCalls, requests, execLog, answer, fnIn, fnOut>>

\* main.rs:509 and get_ai_response up to the send (main.rs:429-479)
SendRequest ==
    /\ pc = "synth"
    /\ synthCalls' = synthCalls + 1
    /\ command' = None
    /\ output' = None
    /\ \E typedKey \in ApiKeys, typedLang \in Languages :
         LET r == load_config(configFile, typedKey, typedLang)
         IN  /\ loads' = loads + 1
             /\ configFile' = r.file
             /\ IF r.ok
                THEN /\ request' = Some([authorization |-> r.config.api_key,
                                         language |-> r.config.language,
                                         user |-> user_prompt(cli.prompt[1],
                                                              history)])
                     /\ requests' = requests + 1
                     /\ pc' = "awaiting"
                     /\ UNCHANGED result
                ELSE /\ Return(Err("config"))
                     /\ UNCHANGED <<request, requests>>
    /\ UNCHANGED <<cli, config, attempt, history, response, execLog, answer,
                   fnIn, fnOut>>

\* the rest of get_ai_response (main.rs:479-488), then main.rs:511-526
ReceiveResponse ==
    /\ pc = "awaiting"
    /\ \E resp \in Responses :
         /\ response' = Some(resp)
         /\ IF ~resp.sent
            THEN invoker_error("send") /\ UNCHANGED command
            ELSE IF ~resp.json
            THEN invoker_error("parse") /\ UNCHANGED command
            ELSE IF ~resp.has_content
            THEN invoker_error("content") /\ UNCHANGED command
            ELSE LET cmd == clean_command_output(resp.content)
                 IN  /\ command' = Some(cmd)
                     /\ IF gate_blocks(cmd)
                        THEN Return(Ok("dangerous"))
                        ELSE IF dry_run_skips
                        THEN Return(Ok("dry run"))
                        ELSE pc' = "confirm_exec" /\ UNCHANGED result
    /\ UNCHANGED <<cli, configFile, config, attempt, history, output, request,
                   loads, synthCalls, requests, execLog, answer, fnIn, fnOut>>

\* a declined execute question answered by another call
on_execute_declined_again ==
    /\ pc' = "synth"
    /\ UNCHANGED result

\* main.rs:593: a declined execute question ends main with Ok
on_execute_declined == Return(Ok("declined"))

\* main.rs:527-531 and 593: the answer to "execute this command?"
ConfirmExecute ==
    /\ pc = "confirm_exec"
    /\ \E yes \in BOOLEAN :
         /\ answer' = Some([question |-> "execute", yes |-> yes])
         /\ IF yes
            THEN pc' = "executing" /\ UNCHANGED result
            ELSE on_execute_declined
    /\ UNCHANGED <<cli, configFile, config, attempt, history, command, output,
                   request, response, loads, synthCalls, requests, execLog,
                   fnIn, fnOut>>

\* the attempt recorded and the counter left as it was
Retry_without_count(out) ==
    /\ history' = Some([command |-> command[1], output |-> out.text,
                        success |-> out.success, attempt |-> attempt])
    /\ UNCHANGED attempt
    /\ pc' = "synth"
    /\ UNCHANGED result

\* the attempt recorded and the counter advanced by two
Retry_skips(out) ==
    /\ history' = Some([command |-> command[1], output |-> out.text,
                        success |-> out.success, attempt |-> attempt])
    /\ attempt' = attempt + 2
    /\ IF attempt + 2 <= max_attempts
       THEN pc' = "synth" /\ UNCHANGED result
       ELSE Return(Ok("max attempts"))

\* main.rs:572-579 and 584-591, then the loop test and main.rs:599-603
Retry(out) ==
    /\ history' = Some([command |-> command[1], output |-> out.text,
                        success |-> out.success, attempt |-> attempt])
    /\ attempt' = attempt + 1
    /\ IF loop_continues(attempt + 1)
       THEN pc' = "synth" /\ UNCHANGED result
       ELSE Return(Ok("max attempts"))

\* main.rs:535-566 and 584-591: the subprocess and its captured output
Execute ==
    /\ pc = "executing"
    /\ \E r \in ExecResults :
         LET out == [success |-> r.success,
                     text |-> IF r.success THEN r.stdout ELSE r.stderr]
         IN  /\ execLog' = Append(execLog,
                                  [command |-> executor_argument(command[1]),
                                   spawned |-> r.spawned,
                                   success |-> out.success,
                                   output |-> out.text])
             /\ IF ~r.spawned
                THEN /\ Return(Err("spawn"))
                     /\ UNCHANGED <<output, history, attempt>>
                ELSE /\ output' = Some(out)
                     /\ IF asks_goal(out)
                        THEN /\ pc' = "confirm_goal"
                             /\ UNCHANGED <<result, history, attempt>>
                        ELSE Retry(out)
    /\ UNCHANGED <<cli, configFile, config, command, request, response, loads,
                   synthCalls, requests, answer, fnIn, fnOut>>

\* a confirmed goal recorded as history before main returns
on_goal_confirmed_recorded ==
    /\ Return(Ok("goal achieved"))
    /\ history' = Some([command |-> command[1], output |-> output[1].text,
                        success |-> output[1].success, attempt |-> attempt])
    /\ UNCHANGED attempt

\* main.rs:581: a confirmed goal ends main with Ok, history as it was
on_goal_confirmed ==
    /\ Return(Ok("goal achieved"))
    /\ UNCHANGED <<history, attempt>>

\* main.rs:566-582: the answer to "goal achieved?"
ConfirmGoal ==
    /\ pc = "confirm_goal"
    /\ \E yes \in BOOLEAN :
         /\ answer' = Some([question |-> "goal", yes |-> yes])
         /\ IF yes
            THEN on_goal_confirmed
            ELSE Retry(output[1])
    /\ UNCHANGED <<cli, configFile, config, command, output, request,
                   response, loads, synthCalls, requests, execLog, fnIn, fnOut>>

Next ==
    \/ Start
    \/ SendRequest
    \/ ReceiveResponse
    \/ ConfirmExecute
    \/ Execute
    \/ ConfirmGoal

Spec == Init /\ [][Next]_vars

-----------------------------------------------------------------------------
(* The Safety Gate on its own: is_dangerous_command applied to command texts *)

MaxLen == 3

ShortAlphabet == {"d", "D", "k", " "}

\* every text of at most MaxLen characters over ShortAlphabet
ShortTexts == UNION {[1..n -> ShortAlphabet] : n \in 0..MaxLen}

\* e with the letters at the positions U in upper case, the others in lower
Recase(e, U) ==
    [i \in 1..Len(e) |-> IF i \in U THEN upper_char(e[i]) ELSE lower_char(e[i])]

CaseVariants(e) ==
    {Recase(e, U) :
        U \in SUBSET {i \in 1..Len(e) : upper_char(e[i]) # lower_char(e[i])}}

\* e with one character left out
DropOne(e) ==
    {SubSeq(e, 1, i - 1) \o SubSeq(e, i + 1, Len(e)) : i \in 1..Len(e)}

DenylistVariants ==
    UNION {CaseVariants(DANGEROUS_COMMANDS[k]) :
              k \in 1..Len(DANGEROUS_COMMANDS)}

NearMisses ==
    UNION {DropOne(DANGEROUS_COMMANDS[k])
              \cup DropOne(to_lowercase(DANGEROUS_COMMANDS[k])) :
              k \in 1..Len(DANGEROUS_COMMANDS)}

Prefixes == {<<>>, <<"x", " ">>}
Suffixes == {<<>>, <<" ", "/">>}

GateInputs ==
    ShortTexts
    \cup {a \o t \o b : a \in Prefixes, b \in Suffixes,
                         t \in DenylistVariants \cup NearMisses}

InitGate ==
    /\ pc = "gate_in"
    /\ fnIn \in GateInputs
    /\ fnOut = None
    /\ cli = [prompt |-> None, dry_run |-> FALSE]
    /\ configFile = [state |-> "absent", api_key |-> "", language |-> ""]
    /\ config = None
    /\ attempt = 1
    /\ history = None
    /\ command = None
    /\ output = None
    /\ request = None
    /\ response = None
    /\ result = Running
    /\ loads = 0
    /\ synthCalls = 0
    /\ requests = 0
    /\ execLog = <<>>
    /\ answer = None

GateApply ==
    /\ pc = "gate_in"
    /\ fnOut' = Some(is_dangerous_command(fnIn))
    /\ pc' = "gate_out"
    /\ UNCHANGED <<cli, configFile, config, attempt, history, command, output,
                   request, response, result, loads, synthCalls, requests,
                   execLog, answer, fnIn>>

NextGate == GateApply

SpecGate == InitGate /\ [][NextGate]_vars

-----------------------------------------------------------------------------
(* The Sanitizer on its own: clean_command_output applied to raw texts *)

MaxTokens == 5

CleanTokens == {Fence, <<Tick>>, TagBash, <<"\n">>, <<"x">>}

RECURSIVE Flatten(_)
Flatten(f) == IF f = <<>> THEN <<>> ELSE Head(f) \o Flatten(Tail(f))

\* every text made of at most MaxTokens tokens
TokenTexts ==
    UNION {{Flatten(f) : f \in [1..n -> CleanTokens]} : n \in 0..MaxTokens}

RawShellTagged == Fence \o TagShell \o <<" ", "\n", "l", "s", " ">> \o Fence
RawTwoBlocks ==
    <<"a", " ">> \o Fence \o <<"\n", "l", "s", "\n">> \o Fence
    \o <<" ", "o", "r", " ">> \o Fence \o TagBash \o <<"\n", "p", "s">>
    \o Fence \o <<"\n">>
RawUnterminated == <<" ">> \o Fence \o TagBash \o <<"\n", "l", "s", "\t">>

CleanInputs ==
    TokenTexts \cup Contents
    \cup {RawShellTagged, RawTwoBlocks, RawUnterminated}

InitClean ==
    /\ pc = "clean_in"
    /\ fnIn \in CleanInputs
    /\ fnOut = None
    /\ cli = [prompt |-> None, dry_run |-> FALSE]
    /\ configFile = [state |-> "absent", api_key |-> "", language |-> ""]
    /\ config = None
    /\ attempt = 1
    /\ history = None
    /\ command = None
    /\ output = None
    /\ request = None
    /\ response = None
    /\ result = Running
    /\ loads = 0
    /\ synthCalls = 0
    /\ requests = 0
    /\ execLog = <<>>
    /\ answer = None

CleanApply ==
    /\ pc = "clean_in"
    /\ fnOut' = Some(clean_command_output(fnIn))
    /\ pc' = "clean_out"
    /\ UNCHANGED <<cli, configFile, config, attempt, history, command, output,
                   request, response, result, loads, synthCalls, requests,
                   execLog, answer, fnIn>>

NextClean == CleanApply

SpecClean == InitClean /\ [][NextClean]_vars

-----------------------------------------------------------------------------
(* The loop with every call, prompt and subprocess returning *)

SpecLive ==
    /\ Init
    /\ [][Next]_vars
    /\ WF_vars(Start)
    /\ WF_vars(SendRequest)
    /\ WF_vars(ReceiveResponse)
    /\ WF_vars(ConfirmExecute)
    /\ WF_vars(Execute)
    /\ WF_vars(ConfirmGoal)

\* s contains a denylist entry when letter case is ignored on both sides
contains_entry_any_case(s) ==
    \E k \in 1..Len(DANGEROUS_COMMANDS) :
        contains(to_lowercase(s), to_lowercase(DANGEROUS_COMMANDS[k]))

-----------------------------------------------------------------------------
(* Claims *)

\* C1: a command the gate classifies as dangerous is never given to the
\* executor and never recorded as history, on the first attempt or a retry;
\* the step that obtains such a command ends the run at once (no
\* confirmation is asked) with the dangerous-command outcome.
C1_DangerousNeverExecuted ==
    /\ [](/\ \A i \in 1..Len(execLog) :
                ~is_dangerous_command(execLog[i].command)
          /\ (history # None => ~is_dangerous_command(history[1].command))
          /\ (pc \in {"confirm_exec", "executing", "confirm_goal"}
                => ~is_dangerous_command(command[1])))
    /\ [][(pc = "awaiting" /\ command' # None
             /\ is_dangerous_command(command'[1]))
          => (/\ pc' = "done"
              /\ result' = Ok("dangerous")
              /\ UNCHANGED <<history, execLog, attempt>>)]_vars

\* a dangerous command refused on a retry
C1_Witness ==
    /\ pc = "done"
    /\ result = Ok("dangerous")
    /\ attempt = 2
    /\ Len(execLog) = 1
    /\ is_dangerous_command(command[1])

\* C2: no run makes more than 3 get_ai_response calls; a run in which every
\* call's command was executed and then retried (it failed, or the goal was
\* denied) makes exactly 3 calls and ends with "max attempts"; that outcome
\* is reached only after 3 calls.
C2_AtMostThreeSyntheses ==
    /\ synthCalls <= 3
    /\ (pc = "done" /\ synthCalls >= 1
          /\ Len(execLog) = synthCalls /\ attempt - 1 = synthCalls)
       => (result = Ok("max attempts") /\ synthCalls = 3)
    /\ result = Ok("max attempts") => (pc = "done" /\ synthCalls = 3)

\* three attempts, some failed and some unconfirmed, then max attempts
C2_Witness ==
    /\ pc = "done"
    /\ result = Ok("max attempts")
    /\ synthCalls = 3
    /\ \E i \in 1..Len(execLog) : execLog[i].success
    /\ \E i \in 1..Len(execLog) : ~execLog[i].success

\* C3: every command text that contains a denylist entry in any letter case
\* is classified as dangerous.
C3_DenylistAnyCase ==
    (pc = "gate_out" /\ contains_entry_any_case(fnIn)) => fnOut = Some(TRUE)

\* C4: a command text that contains no denylist entry, letter case ignored,
\* is classified as not dangerous.
C4_NoEntryNotDangerous ==
    (pc = "gate_out" /\ ~contains_entry_any_case(fnIn)) => fnOut = Some(FALSE)

\* "rm -r", one character short of an entry, passes the gate
C4_Witness ==
    /\ pc = "gate_out"
    /\ ~contains_entry_any_case(fnIn)
    /\ contains(fnIn, <<"r", "m", " ", "-", "r">>)
    /\ fnOut = Some(FALSE)

\* C5: with an empty api_key no request is posted to the backend.
C5_EmptyKeyNoRequest ==
    request # None => request[1].authorization # ""

\* C6: a failure of get_ai_response (request not sent, body no JSON, content
\* absent) ends the run with that error in the same step, with the attempt
\* counter, the history and the call counters as they were; nothing happens
\* after main has returned.
C6_InvokerFailureAborts ==
    /\ [][(pc = "awaiting"
             /\ (~response'[1].sent \/ ~response'[1].json
                   \/ ~response'[1].has_content))
          => (/\ pc' = "done"
              /\ result'.kind = "Err"
              /\ result'.why \in {"send", "parse", "content"}
              /\ UNCHANGED <<attempt, history, command, synthCalls,
                             requests, execLog>>)]_vars
    /\ [](result.kind # "running" => pc = "done")
    /\ [][pc = "done" => UNCHANGED vars]_vars

\* the backend fails on a retry
C6_Witness ==
    /\ pc = "done"
    /\ result = Err("content")
    /\ attempt = 2
    /\ synthCalls = 2

\* C7: a response whose HTTP status is not a success is an error of
\* get_ai_response, whatever its body.
C7_HttpFailureIsError ==
    (pc # "awaiting" /\ response # None /\ response[1].sent
        /\ response[1].status \notin 200..299)
    => result.kind = "Err"

\* C8: attempt starts at 1; a step leaves it or adds 1; it adds 1 exactly in
\* the steps that record the executed command of this attempt as history,
\* which are the step of a command that exited with failure and the step of
\* a denied goal question.
C8_AttemptCounter ==
    /\ attempt = 1
    /\ [][/\ attempt' \in {attempt, attempt + 1}
          /\ (attempt' = attempt + 1) <=> (history' # history)
          /\ (attempt' = attempt + 1) <=>
                \/ (pc = "executing" /\ Len(execLog') = attempt
                      /\ execLog'[attempt].spawned
                      /\ ~execLog'[attempt].success)
                \/ (pc = "confirm_goal" /\ result' # Ok("goal achieved"))
          /\ (attempt' = attempt + 1) =>
                (/\ Len(execLog') = attempt
                 /\ execLog'[attempt].spawned
                 /\ history' = Some([command |-> execLog'[attempt].command,
                                     output |-> execLog'[attempt].output,
                                     success |-> execLog'[attempt].success,
                                     attempt |-> attempt]))]_vars

\* the counter after three recorded attempts
C8_Witness ==
    /\ attempt = 4
    /\ Len(execLog) = 3
    /\ history[1].attempt = 3

\* C9: the request of attempt 1 carries the first-attempt message; the
\* request of attempt n > 1 carries the command, output and success flag of
\* the command executed in attempt n-1 and the number n-1, and nothing of
\* older attempts.
C9_PromptCarriesLastAttempt ==
    (pc = "awaiting") =>
        /\ Len(execLog) = attempt - 1
        /\ request[1].user =
             IF attempt = 1
             THEN [template |-> "first", prompt |-> Task, command |-> <<>>,
                   output |-> "", success |-> FALSE, attempt |-> 0]
             ELSE [template |-> "history", prompt |-> Task,
                   command |-> execLog[attempt - 1].command,
                   output |-> execLog[attempt - 1].output,
                   success |-> execLog[attempt - 1].success,
                   attempt |-> attempt - 1]

\* the request of attempt 3, after two different commands and outcomes
C9_Witness ==
    /\ pc = "awaiting"
    /\ attempt = 3
    /\ execLog[1].command # execLog[2].command
    /\ execLog[1].success # execLog[2].success
    /\ request[1].user.command = execLog[2].command

\* C10: the step in which a command exits with failure records the attempt
\* and adds 1 to the counter, and goes on to the next call or to "max
\* attempts", never to the goal question; a run ends as goal achieved only
\* after a command that exited with success.
C10_FailedAlwaysRetries ==
    /\ [][(pc = "executing" /\ Len(execLog') = Len(execLog) + 1
             /\ execLog'[Len(execLog')].spawned
             /\ ~execLog'[Len(execLog')].success)
          => (/\ attempt' = attempt + 1
              /\ history' # None
              /\ history'[1].command = command[1]
              /\ history'[1].success = FALSE
              /\ history'[1].attempt = attempt
              /\ \/ pc' = "synth"
                 \/ pc' = "done" /\ result' = Ok("max attempts"))]_vars
    /\ [](pc = "confirm_goal" \/ result = Ok("goal achieved")
            => (execLog # <<>> /\ execLog[Len(execLog)].success))

\* a failed first command followed by the second call
C10_Witness ==
    /\ pc = "synth"
    /\ attempt = 2
    /\ ~execLog[1].success
    /\ history[1].success = FALSE

\* C11: a command that exits with success leads to the goal question; the
\* answer yes ends the run as goal achieved with the history, the counter
\* and the call counters as they were; the answer no records the attempt,
\* adds 1 to the counter and goes to the next call or to "max attempts".
C11_SuccessAsksGoal ==
    /\ [][(pc = "executing" /\ Len(execLog') = Len(execLog) + 1
             /\ execLog'[Len(execLog')].spawned
             /\ execLog'[Len(execLog')].success)
          => (pc' = "confirm_goal"
              /\ UNCHANGED <<history, attempt, result>>)]_vars
    /\ [][(pc = "confirm_goal" /\ answer'[1].yes)
          => (/\ pc' = "done"
              /\ result' = Ok("goal achieved")
              /\ UNCHANGED <<history, attempt, synthCalls, requests,
                             execLog>>)]_vars
    /\ [][(pc = "confirm_goal" /\ ~answer'[1].yes)
          => (/\ history' = Some([command |-> execLog[attempt].command,
                                  output |-> execLog[attempt].output,
                                  success |-> TRUE,
                                  attempt |-> attempt])
              /\ attempt' = attempt + 1
              /\ \/ pc' = "synth"
                 \/ pc' = "done" /\ result' = Ok("max attempts"))]_vars
    /\ [][result = Ok("goal achieved")
          => (UNCHANGED <<synthCalls, execLog, history>>)]_vars

\* the goal confirmed on the second attempt: the history is that of the first
C11_Witness ==
    /\ pc = "done"
    /\ result = Ok("goal achieved")
    /\ attempt = 2
    /\ history[1].attempt = 1
    /\ Len(execLog) = 2

\* C12 as stated: a declined confirmation, of either question, ends the run.
C12_DeclineAlwaysTerminal ==
    [][(pc \in {"confirm_exec", "confirm_goal"} /\ ~answer'[1].yes)
       => pc' = "done"]_vars

\* C12 as amended: a declined execute question ends the run; a declined goal
\* question goes to the next call, and ends the run (as "max attempts") only
\* on the third attempt.
C12_DeclineAmended ==
    /\ [][(pc = "confirm_exec" /\ ~answer'[1].yes)
          => (pc' = "done" /\ UNCHANGED <<synthCalls, execLog>>)]_vars
    /\ [][(pc = "confirm_goal" /\ ~answer'[1].yes)
          => (/\ attempt' = attempt + 1
              /\ history' # None
              /\ history'[1].attempt = attempt
              /\ IF attempt < 3
                 THEN pc' = "synth" /\ result' = Running
                 ELSE pc' = "done" /\ result' = Ok("max attempts"))]_vars
    /\ [][pc = "done" => (UNCHANGED <<pc, synthCalls, execLog>>)]_vars

\* a declined goal question followed by the next call
C12_Witness ==
    /\ pc = "awaiting"
    /\ answer = Some([question |-> "goal", yes |-> FALSE])
    /\ synthCalls = 2

\* C13: a declined execute question ends the run with Ok; the command of
\* that attempt is not executed, no history is recorded for it and the
\* counter stays.
C13_DeclinedExecuteEndsRun ==
    /\ [][(pc = "confirm_exec" /\ ~answer'[1].yes)
          => (/\ pc' = "done"
              /\ result' = Ok("declined")
              /\ UNCHANGED <<history, attempt, execLog, synthCalls,
                             command>>)]_vars
    /\ [](result = Ok("declined")
            => (/\ pc = "done"
                /\ Len(execLog) = attempt - 1
                /\ (history # None => history[1].attempt = attempt - 1)))

\* the execute question declined on a retry
C13_Witness ==
    /\ pc = "done"
    /\ result = Ok("declined")
    /\ attempt = 2
    /\ Len(execLog) = 1

\* C14: once main has loaded the configuration, no step loads it again or
\* writes the file.
C14_ConfigLoadedOnce ==
    [][pc # "start" => (UNCHANGED <<loads, configFile>>)]_vars

\* C15: with --dry-run nothing is given to the executor, no question is
\* asked, no history is recorded, and the run ends after one call, the gate
\* having been applied to its command.
C15_DryRunSkipsExecution ==
    cli.dry_run =>
        /\ execLog = <<>>
        /\ history = None
        /\ answer = None
        /\ attempt = 1
        /\ pc \notin {"confirm_exec", "executing", "confirm_goal"}
        /\ synthCalls <= 1
        /\ (pc = "done" /\ command # None) =>
              /\ synthCalls = 1
              /\ result = IF is_dangerous_command(command[1])
                          THEN Ok("dangerous") ELSE Ok("dry run")

\* a dry run that ended after its one call
C15_Witness ==
    /\ cli.dry_run
    /\ pc = "done"
    /\ result = Ok("dry run")
    /\ synthCalls = 1
    /\ requests = 1

C19_ExecutedIsGatedCommand ==
    /\ [](pc \in {"confirm_exec", "executing", "confirm_goal"}
            => (/\ command = Some(clean_command_output(response[1].content))
                /\ ~is_dangerous_command(command[1])))
    /\ [][(pc \in {"confirm_exec", "executing", "confirm_goal"})
          => (UNCHANGED <<command, response>>)]_vars
    /\ [][pc = "executing"
          => (/\ answer = Some([question |-> "execute", yes |-> TRUE])
              /\ Len(execLog') = Len(execLog) + 1
              /\ execLog'[Len(execLog')].command = command[1]
              /\ execLog'[Len(execLog')].command
                    = clean_command_output(response[1].content))]_vars

\* an executed command that differs from the raw text and has an upper-case
\* letter
C19_Witness ==
    /\ pc = "confirm_goal"
    /\ Len(execLog) = 2
    /\ response[1].content = RawChmod
    /\ execLog[2].command = clean_command_output(RawChmod)
    /\ execLog[1].command = clean_command_output(RawFencedLs)
    /\ execLog[1].command # RawFencedLs

\* a fenced block, read from the text: the first opening fence that has a
\* closing fence after it, and what lies between it and the next fence
has_fenced_block(s) ==
    \E i \in 1..Len(s) : \E j \in (i + 3)..Len(s) :
        starts_with_at(s, i, Fence) /\ starts_with_at(s, j, Fence)

first_block_interior(s) ==
    LET i == MinOf({a \in 1..Len(s) :
                      /\ starts_with_at(s, a, Fence)
                      /\ \E b \in (a + 3)..Len(s) : starts_with_at(s, b, Fence)})
        j == MinOf({b \in (i + 3)..Len(s) : starts_with_at(s, b, Fence)})
    IN  SubSeq(s, i + 3, j - 1)

without_tag(t) ==
    IF starts_with_at(t, 1, TagShell) THEN SubSeq(t, Len(TagShell) + 1, Len(t))
    ELSE IF starts_with_at(t, 1, TagBash) THEN SubSeq(t, Len(TagBash) + 1, Len(t))
    ELSE t

\* C17: clean_command_output applied to its own result returns that result.
C17_CleanIdempotent ==
    pc = "clean_out" => clean_command_output(fnOut[1]) = fnOut[1]

\* a text with a run of four fence characters, whose result keeps one
C17_Witness ==
    /\ pc = "clean_out"
    /\ starts_with_at(fnIn, 1, Fence \o <<Tick>>)
    /\ has_fenced_block(fnIn)
    /\ contains(fnOut[1], <<Tick, "x">>)

\* C18: of a text with a fenced block the result is the interior of the
\* first block without its shell or bash tag, trimmed; of a text without
\* one it is the text trimmed; the fenced "ls -la" of the specification
\* gives exactly "ls -la".
C18_FirstBlockInterior ==
    pc = "clean_out" =>
        /\ fnOut[1] = IF has_fenced_block(fnIn)
                      THEN trim(without_tag(first_block_interior(fnIn)))
                      ELSE trim(fnIn)
        /\ fnIn = RawFencedLs => fnOut[1] = <<"l", "s", " ", "-", "l", "a">>

\* the fenced "ls -la"
C18_Witness ==
    /\ pc = "clean_out"
    /\ fnIn = RawFencedLs
    /\ fnOut = Some(<<"l", "s", " ", "-", "l", "a">>)

\* C20: with every call, prompt and subprocess returning, main returns;
\* no run makes more than 3 calls or more than 3 executions.
C20_Terminates ==
    /\ <>(pc = "done")
    /\ [](synthCalls <= 3 /\ Len(execLog) <= 3)
    /\ [][pc = "done" => UNCHANGED vars]_vars

\* a run that used all three calls and executions
C20_Witness ==
    /\ pc = "done"
    /\ synthCalls = 3
    /\ Len(execLog) = 3
    /\ result.kind = "Ok"

=============================================================================
